---------------------------- MODULE Spec2Model ----------------------------
(***************************************************************************)
(* collective.singing: the message queues of src/collective/singing/       *)
(* message.py.  A Message has a status; the status setter notifies         *)
(* MessageChanged; the subscriber queue_message files the message in the   *)
(* queue of its status; MessageQueues.dispatch() drains the 'new' and      *)
(* 'retry' queues under a lock file; MessageQueues.flush() empties queues. *)
(*                                                                         *)
(* One step of the model is one atomic piece of one process's code.  The   *)
(* registry lives in a transactional store: a process sees its own         *)
(* snapshot, so nothing but the running cycle changes the queues while a   *)
(* cycle runs (a concurrent write would surface as ConflictError, which is *)
(* one of the outcomes of a dispatcher call below).  The lock file is the  *)
(* one thing the processes really share.                                   *)
(***************************************************************************)
EXTENDS Integers, Sequences, FiniteSets, TLC

\* ------------------------------------------------------------- bounds
\* the message objects there are, and the processes that call dispatch()
NMsgs == 3
NProcs == 2
\* Spec: the constructor is called at most MaxCreated times
MaxCreated == 2
\* status assignments after which the model stops assigning (Spec: since
\* the start; CycleSpec: since its initial state)
MaxClock == 3

Msgs == 1..NMsgs
Procs == 1..NProcs

\* ---------------------------------------------------------- constants
None == "None"

\* no process (the lock file is free), no timestamp (attribute never set)
NoProc == 0
NoStamp == 0 - 1

\* interfaces.MESSAGE_STATES (interfaces.py): the fixed status enumeration.
MESSAGE_STATES == {"new", "sent", "error", "retry"}

\* a value outside the enumeration
Bogus == "bogus"

\* a cycle that works on 'retry' before 'new'
RetryFirst == <<"retry", "new">>

\* for name in 'new', 'retry'
DispatchNames == <<"new", "retry">>

\* def flush(self, queue_names=('error', 'sent'))
DefaultFlushNames == {"error", "sent"}

\* the arguments of a flush() call: without argument, or with queue names
NoArg == [given |-> FALSE, names |-> {}]
FlushArgs == {NoArg} \cup [given : {TRUE}, names : SUBSET MESSAGE_STATES]

VARIABLES
    created,        \* the Message objects constructed so far
    status,         \* Message._status
    status_message, \* Message.status_message
    status_changed, \* Message.status_changed (NoStamp: attribute never set)
    queues,         \* MessageQueues: status name -> queue (head first)
    messages_sent,  \* MessageQueues._messages_sent
    lock,           \* holder of the lock file LOCKFILE_NAME, or NoProc
    now,            \* datetime.datetime.now(), as a logical clock
    notified,       \* number of MessageChanged events delivered so far
    seen,           \* history: the fields of a message when queue_message last filed it
    pc,             \* where each process is in dispatch()
    phase,          \* _dispatch: index into ('new', 'retry')
    sent,           \* _dispatch: local sent
    failed,         \* _dispatch: local failed
    pending,        \* what dispatch() is about to return or raise
    log,            \* history: the messages this cycle dispatched, with the outcome
    start,          \* history: queues and messages_sent when the cycle began
    op              \* the direct call (constructor, setter, flush) that is returning

vars == <<created, status, status_message, status_changed, queues,
          messages_sent, lock, now, notified, seen, pc, phase, sent, failed,
          pending, log, start, op>>

msgVars == <<created, status, status_message, status_changed, now, notified, seen>>
cycleVars == <<pc, phase, sent, failed, pending, log, start>>

\* ------------------------------------------------------------ helpers
NoResult == [kind |-> None, sent |-> 0, failed |-> 0]
Returned(s, f) == [kind |-> "return", sent |-> s, failed |-> f]
Raised(e) == [kind |-> e, sent |-> 0, failed |-> 0]

\* the record of a direct call: what was called, on which message, with which
\* value, whether flush was given queue names, what the call raised, and how
\* many queues it changed
Op(name, m, value, arg, raised, n) ==
    [name |-> name, msg |-> m, value |-> value, given |-> arg.given,
     raised |-> raised, n |-> n]

NoOp == Op("none", 0, None, NoArg, None, 0)

\* what the transaction of a dispatch() call would restore, the number of
\* the attempt, and the log of the attempt that was aborted before it
Snapshot(attempt, aborted) ==
    [queues |-> queues, messages_sent |-> messages_sent, status |-> status,
     status_message |-> status_message, status_changed |-> status_changed,
     attempt |-> attempt, aborted |-> aborted]

NoStart ==
    [queues |-> [s \in MESSAGE_STATES |-> <<>>], messages_sent |-> 0,
     status |-> [m \in Msgs |-> None], status_message |-> [m \in Msgs |-> None],
     status_changed |-> [m \in Msgs |-> NoStamp], attempt |-> 0, aborted |-> <<>>]

Range(q) == {q[i] : i \in 1..Len(q)}

Count(q, m) == Cardinality({i \in 1..Len(q) : q[i] = m})

\* The clock and the counters, which the model keeps finite.  A step that
\* assigns a status is disabled once the clock has reached the limit; in a
\* saturating step (sat) the values stop at the limit instead: no guard of
\* the program reads them, so the saturated system takes exactly the steps
\* of the real one.
Bump(n, limit, sat) == IF sat /\ n >= limit THEN n ELSE n + 1

MayTick(limit, sat) == sat \/ now < limit

\* a setter without its assert
Unchecked(value) == TRUE

\* assert value in interfaces.MESSAGE_STATES, value
InStates(value) == value \in MESSAGE_STATES

\* a cycle that counts every dispatched message as sent
CountsAlways(st) == TRUE

\* _dispatch, line 109: if status == 'sent' the message counts as sent
CountsAsSent(st) == st = "sent"

\* zc.queue put: append at the tail.
put(q, m) == Append(q, m)

\* queue_message: queue[message.status].put(message)
queue_message(qs, m, s) == [qs EXCEPT ![s] = put(@, m)]

\* a LockFile that does not see the lock of another process
LockFileBlind(l) == TRUE

\* zc.lockfile.LockFile(LOCKFILE_NAME) succeeds iff nobody holds the file.
LockFile(l) == l = NoProc

\* a flush that pulls once
DrainOne(q) == IF q = <<>> THEN q ELSE Tail(q)

\* queue.pull() until IndexError
RECURSIVE Drain(_)
Drain(q) == IF q = <<>> THEN q ELSE Drain(Tail(q))

\* flush: the queues after pulling every named queue empty
flush(qs, names) == [s \in MESSAGE_STATES |-> IF s \in names THEN Drain(qs[s]) ELSE qs[s]]

\* the names a flush() call works on
FlushNames(arg) == IF arg.given THEN arg.names ELSE DefaultFlushNames

\* -------------------------------------------------------- dispatchers
\* What the dispatcher of a payload can do when dispatch(message) runs.
Outcomes ==
    [kind : {"return"}, status : MESSAGE_STATES \cup {Bogus}]
        \cup [kind : {"notpair", "Exception", "ConflictError", "NoDispatcher"},
              status : {None}]

\* a dispatch that re-raises every exception
dispatchReraise(o) ==
    CASE o.kind = "NoDispatcher" -> [exc |-> "TypeError", status |-> None, msg |-> None]
      [] o.kind = "return" -> [exc |-> None, status |-> o.status, msg |-> "msg"]
      [] o.kind = "ConflictError" -> [exc |-> "ConflictError", status |-> None, msg |-> None]
      [] o.kind = "Exception" -> [exc |-> "Exception", status |-> None, msg |-> None]
      [] OTHER -> [exc |-> None, status |-> "error", msg |-> "traceback"]

\* a dispatch whose except Exception clause also catches the store conflict
dispatchCatchAll(o) ==
    CASE o.kind = "NoDispatcher" -> [exc |-> "TypeError", status |-> None, msg |-> None]
      [] o.kind = "return" -> [exc |-> None, status |-> o.status, msg |-> "msg"]
      [] OTHER -> [exc |-> None, status |-> "error", msg |-> "traceback"]

\* a dispatch whose check of the returned value stands outside the try block
dispatchAssertOutside(o) ==
    CASE o.kind = "NoDispatcher" -> [exc |-> "TypeError", status |-> None, msg |-> None]
      [] o.kind = "return" -> [exc |-> None, status |-> o.status, msg |-> "msg"]
      [] o.kind = "ConflictError" -> [exc |-> "ConflictError", status |-> None, msg |-> None]
      [] o.kind = "notpair" -> [exc |-> "AssertionError", status |-> None, msg |-> None]
      [] OTHER -> [exc |-> None, status |-> "error", msg |-> "traceback"]

\* dispatch(message), lines 27-39: what the adapter lookup and the try block
\* leave: an exception that propagates (exc), or the (status, msg) to store.
dispatch(o) ==
    CASE o.kind = "NoDispatcher" -> [exc |-> "TypeError", status |-> None, msg |-> None]
      [] o.kind = "return" -> [exc |-> None, status |-> o.status, msg |-> "msg"]
      [] o.kind = "ConflictError" -> [exc |-> "ConflictError", status |-> None, msg |-> None]
      [] OTHER -> [exc |-> None, status |-> "error", msg |-> "traceback"]

\* ------------------------------------------------------- status setter
\* what the listener of MessageChanged can read of the message it files
Seen(value, stamp) == [status |-> value, status_changed |-> stamp]

\* Message.status = value, for a valid value, on queues qs:
\*   old_status = self.status; self._status = value;
\*   notify(MessageChanged(self, old_status))  -> queue_message
\*   self.status_changed = now()
set(qs, m, value, limit, sat) ==
    /\ status' = [status EXCEPT ![m] = value]
    /\ queues' = queue_message(qs, m, value)
    /\ notified' = Bump(notified, limit, sat)
    /\ seen' = [seen EXCEPT ![m] = Seen(value, status_changed[m])]
    /\ status_changed' = [status_changed EXCEPT ![m] = now]
    /\ now' = Bump(now, limit, sat)

\* No call is handing over its result.  The hand-over (Return, OpReturn) is
\* local to the caller and changes nothing another process reads, so it
\* commutes with every other step: the model lets it happen first.
Settled == op = NoOp /\ \A p \in Procs : pc[p] # "returning"

\* no dispatch() call and no direct call is under way
Idle == op = NoOp /\ \A p \in Procs : pc[p] = "idle"

\* ---------------------------------------------------------------- Init
Init ==
    /\ created = {}
    /\ status = [m \in Msgs |-> None]
    /\ status_message = [m \in Msgs |-> None]
    /\ status_changed = [m \in Msgs |-> NoStamp]
    /\ queues = [s \in MESSAGE_STATES |-> <<>>]
    /\ messages_sent = 0
    /\ lock = NoProc
    /\ now = 0
    /\ notified = 0
    /\ seen = [m \in Msgs |-> Seen(None, NoStamp)]
    /\ pc = [p \in Procs |-> "idle"]
    /\ phase = [p \in Procs |-> 1]
    /\ sent = [p \in Procs |-> 0]
    /\ failed = [p \in Procs |-> 0]
    /\ pending = [p \in Procs |-> NoResult]
    /\ log = [p \in Procs |-> <<>>]
    /\ start = [p \in Procs |-> NoStart]
    /\ op = NoOp

\* ------------------------------------------------------------- actions
\* Message(payload, subscription, status=value): messages are constructed in
\* the order of their identities.
Create(m, value) ==
    /\ Idle
    /\ m \notin created
    /\ m = Cardinality(created) + 1
    /\ m <= MaxCreated
    /\ IF value = None
       THEN \* if status is not None: the setter is not called
            /\ created' = created \cup {m}
            /\ status_message' = [status_message EXCEPT ![m] = None]
            /\ op' = Op("create", m, value, NoArg, None, 0)
            /\ UNCHANGED <<status, queues, notified, seen, status_changed, now>>
       ELSE IF InStates(value)
       THEN /\ MayTick(MaxClock, FALSE)
            /\ created' = created \cup {m}
            /\ status_message' = [status_message EXCEPT ![m] = None]
            /\ set(queues, m, value, MaxClock, FALSE)
            /\ op' = Op("create", m, value, NoArg, None, 0)
       ELSE \* the setter's assert fails in __init__: no object is constructed
            /\ op' = Op("create", m, value, NoArg, "AssertionError", 0)
            /\ UNCHANGED <<created, status, status_message, queues, notified,
                           seen, status_changed, now>>
    /\ UNCHANGED <<messages_sent, lock>>
    /\ UNCHANGED cycleVars

\* message.status = value, by code that holds a reference to the message
Assign(m, value) ==
    /\ Idle
    /\ m \in created
    /\ IF InStates(value)
       THEN /\ MayTick(MaxClock, FALSE)
            /\ set(queues, m, value, MaxClock, FALSE)
            /\ op' = Op("assign", m, value, NoArg, None, 0)
       ELSE /\ op' = Op("assign", m, value, NoArg, "AssertionError", 0)
            /\ UNCHANGED <<status, queues, notified, seen, status_changed, now>>
    /\ UNCHANGED <<created, status_message, messages_sent, lock>>
    /\ UNCHANGED cycleVars

\* MessageQueues.flush(queue_names), or flush() when arg = NoArg
Flush(arg) ==
    /\ Idle
    /\ queues' = flush(queues, FlushNames(arg))
    /\ op' = Op("flush", 0, None, arg, None,
                Cardinality({s \in MESSAGE_STATES : queues'[s] # queues[s]}))
    /\ UNCHANGED <<messages_sent, lock>>
    /\ UNCHANGED msgVars
    /\ UNCHANGED cycleVars

\* a cycle that goes on from the counts of the call before
BeginKeepsCounts(p, snapshot) ==
    /\ lock' = p
    /\ pc' = [pc EXCEPT ![p] = "inner"]
    /\ phase' = [phase EXCEPT ![p] = 1]
    /\ log' = [log EXCEPT ![p] = <<>>]
    /\ start' = [start EXCEPT ![p] = snapshot]
    /\ UNCHANGED <<sent, failed>>

\* dispatch() and _dispatch, lines 85-98: the lock file is taken, sent and
\* failed start at 0, the loop starts with 'new'
Begin(p, snapshot) ==
    /\ lock' = p
    /\ pc' = [pc EXCEPT ![p] = "inner"]
    /\ phase' = [phase EXCEPT ![p] = 1]
    /\ sent' = [sent EXCEPT ![p] = 0]
    /\ failed' = [failed EXCEPT ![p] = 0]
    /\ log' = [log EXCEPT ![p] = <<>>]
    /\ start' = [start EXCEPT ![p] = snapshot]

\* MessageQueues.dispatch(), lines 85-91: take the lock file or return (0, 0)
Call(p) ==
    /\ pc[p] = "idle"
    /\ Settled
    /\ IF LockFile(lock)
       THEN /\ Begin(p, Snapshot(1, <<>>))
            /\ UNCHANGED pending
       ELSE /\ pc' = [pc EXCEPT ![p] = "returning"]
            /\ pending' = [pending EXCEPT ![p] = Returned(0, 0)]
            /\ UNCHANGED <<lock, phase, sent, failed, log, start>>
    /\ UNCHANGED <<queues, messages_sent, op>>
    /\ UNCHANGED msgVars

\* _dispatch, lines 102-112: pull one message and dispatch it
DispatchOne(p, o, limit, sat) ==
    /\ pc[p] = "inner"
    /\ Settled
    /\ queues[DispatchNames[phase[p]]] # <<>>
    /\ LET name == DispatchNames[phase[p]]
           m == Head(queues[name])
           pulled == [queues EXCEPT ![name] = Tail(@)]
           r == dispatch(o)
       IN  IF r.exc # None
           THEN \* propagates out of _dispatch
                /\ queues' = pulled
                /\ pc' = [pc EXCEPT ![p] = "finally"]
                /\ pending' = [pending EXCEPT ![p] = Raised(r.exc)]
                /\ log' = [log EXCEPT ![p] = Append(@, [msg |-> m, o |-> o, status |-> status[m],
                                                  name |-> name, filed |-> FALSE])]
                /\ UNCHANGED <<status, status_message, status_changed, now, notified, seen,
                               sent, failed>>
           ELSE IF InStates(r.status)
           THEN /\ MayTick(limit, sat)
                /\ status_message' = [status_message EXCEPT ![m] = r.msg]
                /\ set(pulled, m, r.status, limit, sat)
                /\ IF CountsAsSent(r.status)
                   THEN /\ sent' = [sent EXCEPT ![p] = Bump(@, limit, sat)]
                        /\ UNCHANGED failed
                   ELSE /\ failed' = [failed EXCEPT ![p] = Bump(@, limit, sat)]
                        /\ UNCHANGED sent
                /\ log' = [log EXCEPT ![p] =
                              IF sat THEN @
                              ELSE Append(@, [msg |-> m, o |-> o, status |-> r.status,
                                               name |-> name, filed |-> TRUE])]
                /\ UNCHANGED <<pc, pending>>
           ELSE \* the setter's assert fails after status_message was stored
                /\ queues' = pulled
                /\ status_message' = [status_message EXCEPT ![m] = r.msg]
                /\ pc' = [pc EXCEPT ![p] = "finally"]
                /\ pending' = [pending EXCEPT ![p] = Raised("AssertionError")]
                /\ log' = [log EXCEPT ![p] = Append(@, [msg |-> m, o |-> o, status |-> status[m],
                                                  name |-> name, filed |-> FALSE])]
                /\ UNCHANGED <<status, status_changed, now, notified, seen, sent, failed>>
    /\ UNCHANGED <<created, messages_sent, lock, phase, start, op>>

\* a cycle that adds every message it pulled to the counter
ExhaustedCountsPulled(p) ==
    /\ pc[p] = "inner"
    /\ Settled
    /\ queues[DispatchNames[phase[p]]] = <<>>
    /\ IF phase[p] < Len(DispatchNames)
       THEN /\ phase' = [phase EXCEPT ![p] = @ + 1]
            /\ UNCHANGED <<messages_sent, pc, pending>>
       ELSE /\ messages_sent' = messages_sent + sent[p] + failed[p]
            /\ pc' = [pc EXCEPT ![p] = "finally"]
            /\ pending' = [pending EXCEPT ![p] = Returned(sent[p], failed[p])]
            /\ UNCHANGED phase
    /\ UNCHANGED <<queues, lock, sent, failed, log, start, op>>
    /\ UNCHANGED msgVars

\* _dispatch, lines 105-106 and 114-115: the queue is empty; go on to the
\* next name, or change the counter and return
Exhausted(p) ==
    /\ pc[p] = "inner"
    /\ Settled
    /\ queues[DispatchNames[phase[p]]] = <<>>
    /\ IF phase[p] < Len(DispatchNames)
       THEN /\ phase' = [phase EXCEPT ![p] = @ + 1]
            /\ UNCHANGED <<messages_sent, pc, pending>>
       ELSE /\ messages_sent' = messages_sent + sent[p]
            /\ pc' = [pc EXCEPT ![p] = "finally"]
            /\ pending' = [pending EXCEPT ![p] = Returned(sent[p], failed[p])]
            /\ UNCHANGED phase
    /\ UNCHANGED <<queues, lock, sent, failed, log, start, op>>
    /\ UNCHANGED msgVars

\* a dispatch() that closes the lock after a normal return only
FinallyLeak(p) ==
    /\ pc[p] = "finally"
    /\ Settled
    /\ lock' = IF pending[p].kind = "return" THEN NoProc ELSE lock
    /\ pc' = [pc EXCEPT ![p] = "returning"]
    /\ UNCHANGED <<queues, messages_sent, phase, sent, failed, pending, log, start, op>>
    /\ UNCHANGED msgVars

\* dispatch(), lines 93-94: finally: lock.close()
Finally(p) ==
    /\ pc[p] = "finally"
    /\ Settled
    /\ lock' = NoProc
    /\ pc' = [pc EXCEPT ![p] = "returning"]
    /\ UNCHANGED <<queues, messages_sent, phase, sent, failed, pending, log, start, op>>
    /\ UNCHANGED msgVars

\* dispatch() hands its return value or its exception to the caller
Return(p) ==
    /\ pc[p] = "returning"
    /\ pc' = [pc EXCEPT ![p] = "idle"]
    /\ pending' = [pending EXCEPT ![p] = NoResult]
    /\ phase' = [phase EXCEPT ![p] = 1]
    /\ sent' = [sent EXCEPT ![p] = 0]
    /\ failed' = [failed EXCEPT ![p] = 0]
    /\ log' = [log EXCEPT ![p] = <<>>]
    /\ start' = [start EXCEPT ![p] = NoStart]
    /\ UNCHANGED <<queues, messages_sent, lock, op>>
    /\ UNCHANGED msgVars

\* a direct call hands its result or its exception to the caller
OpReturn ==
    /\ op # NoOp
    /\ op' = NoOp
    /\ UNCHANGED <<queues, messages_sent, lock>>
    /\ UNCHANGED msgVars
    /\ UNCHANGED cycleVars

Next ==
    \/ \E m \in Msgs, value \in MESSAGE_STATES \cup {None, Bogus} : Create(m, value)
    \/ \E m \in Msgs, value \in MESSAGE_STATES \cup {Bogus} : Assign(m, value)
    \/ \E arg \in FlushArgs : Flush(arg)
    \/ \E p \in Procs : Call(p)
    \/ \E p \in Procs, o \in Outcomes : DispatchOne(p, o, MaxClock, FALSE)
    \/ \E p \in Procs : Exhausted(p)
    \/ \E p \in Procs : Finally(p)
    \/ \E p \in Procs : Return(p)
    \/ OpReturn

Spec == Init /\ [][Next]_vars

\* ---------------------------------------------------------- CycleSpec
\* The dispatch cycles alone, from a registry in which every message has
\* been constructed with some status, in the order of the identities.
CycleInit ==
    /\ created = Msgs
    /\ status \in [Msgs -> MESSAGE_STATES]
    /\ status_message = [m \in Msgs |-> None]
    /\ status_changed = [m \in Msgs |-> m - 1]
    /\ queues = [s \in MESSAGE_STATES |->
                    SelectSeq([i \in 1..NMsgs |-> i], LAMBDA m : status[m] = s)]
    /\ messages_sent = 0
    /\ lock = NoProc
    /\ now = NMsgs
    /\ notified = NMsgs
    /\ seen = [m \in Msgs |-> Seen(status[m], NoStamp)]
    /\ pc = [p \in Procs |-> "idle"]
    /\ phase = [p \in Procs |-> 1]
    /\ sent = [p \in Procs |-> 0]
    /\ failed = [p \in Procs |-> 0]
    /\ pending = [p \in Procs |-> NoResult]
    /\ log = [p \in Procs |-> <<>>]
    /\ start = [p \in Procs |-> NoStart]
    /\ op = NoOp

CycleClock == NMsgs + MaxClock

CycleNext ==
    \/ \E p \in Procs : Call(p)
    \/ \E p \in Procs, o \in Outcomes : DispatchOne(p, o, CycleClock, FALSE)
    \/ \E p \in Procs : Exhausted(p)
    \/ \E p \in Procs : Finally(p)
    \/ \E p \in Procs : Return(p)

CycleSpec == CycleInit /\ [][CycleNext]_vars

\* ------------------------------------------- cycles retried by the caller
\* how many times the caller runs a dispatch() that ends in ConflictError
MaxAttempts == 2

\* The caller catches the ConflictError that dispatch() raised, aborts its
\* transaction, which restores the queues, the fields of the messages and
\* messages_sent to what they were before the call, and calls dispatch()
\* again.  The lock file is no part of the store and the clock goes on.
Retry(p) ==
    /\ pc[p] = "returning"
    /\ pending[p].kind = "ConflictError"
    /\ start[p].attempt < MaxAttempts
    /\ LockFile(lock)
    /\ queues' = start[p].queues
    /\ messages_sent' = start[p].messages_sent
    /\ status' = start[p].status
    /\ status_message' = start[p].status_message
    /\ status_changed' = start[p].status_changed
    /\ Begin(p, [start[p] EXCEPT !.attempt = @ + 1, !.aborted = log[p]])
    /\ pending' = [pending EXCEPT ![p] = NoResult]
    /\ UNCHANGED <<created, now, notified, seen, op>>

RetryNext ==
    \/ CycleNext
    \/ \E p \in Procs : Retry(p)

RetrySpec == CycleInit /\ [][RetryNext]_vars

\* ------------------------------------------------ fair dispatch cycles
\* a dispatcher that obeys its contract: it returns a status of the enumeration
ContractOutcomes == [kind : {"return"}, status : MESSAGE_STATES]

Step(p) ==
    \/ Call(p)
    \/ \E o \in ContractOutcomes : DispatchOne(p, o, CycleClock, TRUE)
    \/ Exhausted(p)
    \/ Finally(p)
    \/ Return(p)

DrainNext == \E p \in Procs : Step(p)

\* Every process goes on calling dispatch(), and a process inside dispatch()
\* goes on running: the interpreter does not stop between two statements.
\* The fairness is strong because the model lets the hand-over of another
\* call's result go first (Settled): the next step of a running process is
\* enabled again and again, not continuously.
DrainSpec == CycleInit /\ [][DrainNext]_vars /\ \A p \in Procs : SF_vars(Step(p))

TypeOK ==
    /\ created \subseteq Msgs
    /\ \A s \in MESSAGE_STATES : \A i \in 1..Len(queues[s]) : queues[s][i] \in created
    /\ lock \in Procs \cup {NoProc}
    /\ now \in 0..CycleClock

\* ============================================================== claims
InCycle(p) == pc[p] \in {"inner", "finally"}

Filed(m) == \E s \in MESSAGE_STATES : m \in Range(queues[s])

\* C1: whenever no dispatch cycle is under way, every message the registry
\* holds is exactly once in the queue of its current status and in no other
\* queue.
C1_OneQueuePerMessage ==
    (\A p \in Procs : ~InCycle(p)) =>
        \A m \in Msgs : Filed(m) =>
            \A s \in MESSAGE_STATES :
                Count(queues[s], m) = (IF s = status[m] THEN 1 ELSE 0)

\* C2: at most one process is inside the inner cycle at any instant, and it
\* is the process that holds the lock file.
C2_OneCycleAtATime ==
    /\ \A p, q \in Procs : (InCycle(p) /\ InCycle(q)) => p = q
    /\ \A p \in Procs : InCycle(p) => lock = p

\* C2 witness: a process has dispatched a message while the other's call was
\* turned away.
C2_Witness ==
    \E p, q \in Procs :
        /\ p # q
        /\ pc[p] = "inner" /\ Len(log[p]) >= 1
        /\ pc[q] = "returning" /\ pending[q] = Returned(0, 0)

\* C3: a dispatch() call made while another process holds the lock returns
\* (0, 0) in that very step and changes no queue, no message and not
\* messages_sent.
C3_SkipTouchesNothing ==
    [][\A p \in Procs :
          (Call(p) /\ lock \notin {NoProc, p}) =>
              /\ pc'[p] = "returning"
              /\ pending'[p] = Returned(0, 0)
              /\ UNCHANGED <<queues, status, status_message, status_changed,
                             messages_sent, lock>>]_vars

\* C3 witness: a call has been turned away while the holder of the lock still
\* has messages to dispatch.
C3_Witness ==
    \E p, q \in Procs :
        /\ p # q
        /\ lock = q /\ pc[q] = "inner" /\ queues["new"] # <<>>
        /\ pc[p] = "returning" /\ pending[p] = Returned(0, 0)

\* C4: the lock is held from its acquisition to the end of the finally
\* clause, is released there and nowhere else, on every exit path, and is
\* free whenever no process is inside the cycle.
C4_LockReleasedOnExit ==
    /\ [][\A p \in Procs :
            /\ (InCycle(p) /\ ~InCycle(p)') => (lock = p /\ lock' = NoProc)
            /\ (lock = p /\ lock' # p) => (pc[p] = "finally" /\ pc'[p] = "returning")]_vars
    /\ []((\A p \in Procs : ~InCycle(p)) => lock = NoProc)

\* C4 witness: dispatch() is leaving with a propagated store conflict and the
\* lock is free.
C4_Witness ==
    \E p \in Procs :
        /\ pc[p] = "returning"
        /\ pending[p].kind = "ConflictError"
        /\ lock = NoProc

\* the messages of log entries with status st, in dispatch order
Dispatched(L, st) ==
    LET hit == SelectSeq(L, LAMBDA e : e.status = st)
    IN  [i \in 1..Len(hit) |-> hit[i].msg]

\* C5: when a cycle that took the lock returns normally, sent is the number
\* of messages it dispatched with resulting status 'sent', failed the number
\* of the others, sent + failed the number of messages pulled, the 'sent' and
\* the 'error' queue hold what they held before followed by the messages
\* dispatched to them in dispatch order, and messages_sent has grown by sent.
C5_CycleCounts ==
    \A p \in Procs :
        (pc[p] = "finally" /\ pending[p].kind = "return") =>
            LET L == log[p]
                nsent == Cardinality({i \in 1..Len(L) : L[i].status = "sent"})
            IN  /\ pending[p].sent = nsent
                /\ pending[p].failed = Len(L) - nsent
                /\ pending[p].sent + pending[p].failed = Len(L)
                /\ \A st \in {"sent", "error"} :
                      queues[st] = start[p].queues[st] \o Dispatched(L, st)
                /\ messages_sent = start[p].messages_sent + nsent

\* C5 witness: 'new' = [1, 2, 3] with outcomes sent, error, sent gives
\* 'sent' = [1, 3], 'error' = [2], messages_sent + 2 and the result (2, 1).
C5_Witness ==
    \E p \in Procs :
        /\ pc[p] = "finally"
        /\ pending[p] = Returned(2, 1)
        /\ start[p].queues["new"] = <<1, 2, 3>>
        /\ start[p].messages_sent = 0
        /\ queues["sent"] = <<1, 3>>
        /\ queues["error"] = <<2>>
        /\ messages_sent = 2

RaisesException == [kind |-> "Exception", status |-> None]
RaisesConflict == [kind |-> "ConflictError", status |-> None]
ReturnsBogus == [kind |-> "return", status |-> Bogus]

\* C6: when the dispatcher of the pulled message raises an exception that is
\* not a store conflict, the message gets status 'error' and the traceback
\* as status_message, is appended to the 'error' queue, counts as failed,
\* and the cycle stays in its loop.
C6_ExceptionBecomesError ==
    [][\A p \in Procs :
          DispatchOne(p, RaisesException, CycleClock, FALSE) =>
              LET name == DispatchNames[phase[p]]
                  m == Head(queues[name])
              IN  /\ status'[m] = "error"
                  /\ status_message'[m] = "traceback"
                  /\ queues'["error"] = Append(queues["error"], m)
                  /\ queues'[name] = Tail(queues[name])
                  /\ failed'[p] = failed[p] + 1
                  /\ sent'[p] = sent[p]
                  /\ pc'[p] = "inner"
                  /\ phase'[p] = phase[p]]_vars

\* C6 witness: after a message whose dispatcher raised, the cycle has
\* dispatched the next message.
C6_Witness ==
    \E p \in Procs :
        /\ Len(log[p]) >= 2
        /\ log[p][1].o = RaisesException
        /\ status[log[p][1].msg] = "error"
        /\ status_message[log[p][1].msg] = "traceback"
        /\ log[p][1].msg \in Range(queues["error"])
        /\ log[p][2].status = "sent"
        /\ failed[p] = 1 /\ sent[p] = 1

\* C7: a store conflict is the last thing a cycle dispatches: the cycle has
\* left its loop, ConflictError is what dispatch() raises, and messages_sent
\* is what it was when the cycle began.
C7_ConflictAborts ==
    \A p \in Procs : \A i \in 1..Len(log[p]) :
        log[p][i].o = RaisesConflict =>
            /\ i = Len(log[p])
            /\ pc[p] \in {"finally", "returning"}
            /\ pending[p] = Raised("ConflictError")
            /\ messages_sent = start[p].messages_sent

\* C7 witness: the conflict came after a message dispatched as 'sent' and
\* before a message that is still in 'new'.
C7_Witness ==
    \E p \in Procs :
        /\ pc[p] = "returning"
        /\ pending[p] = Raised("ConflictError")
        /\ Len(log[p]) = 2
        /\ log[p][1].status = "sent"
        /\ log[p][2].o = RaisesConflict
        /\ sent[p] = 1
        /\ queues["new"] # <<>>
        /\ messages_sent = start[p].messages_sent

\* C8: an assignment of a value outside the enumeration fails with
\* AssertionError and leaves the status, the timestamp, every queue and the
\* number of notifications as they were (in a cycle: the queues as they were
\* after the pull).
C8_InvalidStatusRejected ==
    [][/\ \A m \in Msgs :
            Assign(m, Bogus) =>
                /\ op'.raised = "AssertionError"
                /\ UNCHANGED <<status, status_changed, queues, notified>>
       /\ \A p \in Procs :
            DispatchOne(p, ReturnsBogus, MaxClock, FALSE) =>
                LET name == DispatchNames[phase[p]]
                IN  /\ pending'[p] = Raised("AssertionError")
                    /\ queues' = [queues EXCEPT ![name] = Tail(@)]
                    /\ UNCHANGED <<status, status_changed, notified>>]_vars

\* C8 witness: the assignment failed on a message that is filed in the queue
\* of its status.
C8_Witness ==
    /\ op.name = "assign"
    /\ op.raised = "AssertionError"
    /\ status[op.msg] \in MESSAGE_STATES
    /\ op.msg \in Range(queues[status[op.msg]])

\* C9: under fair scheduling, with dispatchers that return a status of the
\* enumeration, the repeated dispatch cycles come to an end: eventually no
\* call is under way, 'new' and 'retry' are empty and every message has the
\* status 'sent' or 'error'.
C9_DrainTerminates ==
    <>(/\ Idle
       /\ queues["new"] = <<>>
       /\ queues["retry"] = <<>>
       /\ \A m \in Msgs : status[m] \in {"sent", "error"})

\* C10: flush leaves every named queue empty and every other queue, and
\* messages_sent, as they were; without argument the named queues are
\* 'error' and 'sent'.
C10_FlushFrame ==
    [][\A arg \in FlushArgs :
          Flush(arg) =>
              LET names == IF arg.given THEN arg.names ELSE {"error", "sent"}
              IN  /\ \A s \in MESSAGE_STATES :
                        queues'[s] = (IF s \in names THEN <<>> ELSE queues[s])
                  /\ messages_sent' = messages_sent]_vars

\* C10 witness: flush() without argument has emptied a queue and 'new' still
\* holds a message.
C10_Witness ==
    /\ op.name = "flush"
    /\ ~op.given
    /\ op.n >= 1
    /\ queues["error"] = <<>> /\ queues["sent"] = <<>>
    /\ queues["new"] # <<>>

\* C11: messages_sent never decreases, and a step changes it only when a
\* cycle leaves its loop with a normal return, by the sent count that cycle
\* returns; flush, assignments, turned-away calls and aborted cycles leave
\* it as it was.
C11_CounterMonotone ==
    [][/\ messages_sent' >= messages_sent
       /\ messages_sent' # messages_sent =>
             \E p \in Procs :
                 /\ pc[p] = "inner" /\ pc'[p] = "finally"
                 /\ pending'[p].kind = "return"
                 /\ messages_sent' = messages_sent + pending'[p].sent
       /\ \A p \in Procs :
             (pc[p] = "inner" /\ pc'[p] = "finally" /\ pending'[p].kind = "return") =>
                 messages_sent' = messages_sent + pending'[p].sent]_vars

\* C11 witness: a cycle has added its sent count to the counter while a
\* message it did not pull lies in the 'error' queue.
C11_Witness ==
    \E p \in Procs :
        /\ pc[p] = "finally"
        /\ pending[p].kind = "return"
        /\ pending[p].sent >= 1
        /\ messages_sent = start[p].messages_sent + pending[p].sent
        /\ queues["error"] # <<>>

\* the dispatcher returns None, or a value whose len() is not 2
ReturnsNoPair == [kind |-> "notpair", status |-> None]

\* the pulled message is marked 'error' with a diagnostic, filed in 'error',
\* and the cycle stays in its loop
RecoveredLocally(p) ==
    LET name == DispatchNames[phase[p]]
        m == Head(queues[name])
    IN  /\ status'[m] = "error"
        /\ status_message'[m] = "traceback"
        /\ queues'["error"] = Append(queues["error"], m)
        /\ failed'[p] = failed[p] + 1
        /\ pc'[p] = "inner"
        /\ pending'[p] = NoResult

\* C12 as stated: a dispatcher result that is nothing, not a pair, or a pair
\* with an unrecognized status is recovered locally: the message is marked
\* 'error' with a diagnostic and filed in 'error', and the cycle goes on.
C12_InvalidResultRecovered ==
    [][\A p \in Procs : \A o \in {ReturnsNoPair, ReturnsBogus} :
          DispatchOne(p, o, CycleClock, FALSE) => RecoveredLocally(p)]_vars

\* C12 amended: a result that is nothing or not a pair is recovered locally;
\* a pair with an unrecognized status is not: its status_message is stored,
\* the status stays, the message is in the queue of no status any more, and
\* the AssertionError of the setter ends the cycle.
C12_NoPairRecovered ==
    [][\A p \in Procs :
          /\ DispatchOne(p, ReturnsNoPair, CycleClock, FALSE) => RecoveredLocally(p)
          /\ DispatchOne(p, ReturnsBogus, CycleClock, FALSE) =>
                LET name == DispatchNames[phase[p]]
                    m == Head(queues[name])
                IN  /\ status'[m] = status[m]
                    /\ status_message'[m] = "msg"
                    /\ queues' = [queues EXCEPT ![name] = Tail(@)]
                    /\ pc'[p] = "finally"
                    /\ pending'[p] = Raised("AssertionError")]_vars

\* C12 witness: after a message whose dispatcher returned no pair, the cycle
\* has gone on to a message whose dispatcher returned an unrecognized status
\* and has been ended by it.
C12_Witness ==
    \E p \in Procs :
        /\ Len(log[p]) = 2
        /\ log[p][1].o = ReturnsNoPair
        /\ status[log[p][1].msg] = "error"
        /\ log[p][1].msg \in Range(queues["error"])
        /\ log[p][2].o = ReturnsBogus
        /\ status_message[log[p][2].msg] = "msg"
        /\ ~Filed(log[p][2].msg)
        /\ pending[p] = Raised("AssertionError")

\* the changes of status the message state machine allows
Transitions ==
    {<<"new", "sent">>, <<"new", "error">>, <<"error", "retry">>,
     <<"retry", "sent">>, <<"retry", "error">>}

\* C13: every change of the status of a message, by assignment or in a
\* dispatch cycle, is one of new->sent, new->error, error->retry,
\* retry->sent, retry->error.
C13_TransitionsOnly ==
    [][\A m \in Msgs :
          (status[m] # None /\ status'[m] # status[m]) =>
              <<status[m], status'[m]>> \in Transitions]_vars

\* C14: flush does not raise, also when a named queue is already empty (it
\* then leaves the queues as they are), and a second flush with the same
\* names right after the first would change nothing.
C14_FlushIdempotent ==
    [][\A arg \in FlushArgs :
          Flush(arg) =>
              LET names == FlushNames(arg)
              IN  /\ op'.raised = None
                  /\ (\A s \in names : queues[s] = <<>>) => queues' = queues
                  /\ flush(queues', names) = queues'
                  /\ flush(flush(queues, names), names) = flush(queues, names)]_vars

\* C14 witness: flush() without argument has returned from queues 'error'
\* and 'sent' that were already empty, with two messages filed elsewhere.
C14_Witness ==
    /\ op.name = "flush"
    /\ ~op.given
    /\ op.n = 0
    /\ op.raised = None
    /\ queues["error"] = <<>> /\ queues["sent"] = <<>>
    /\ Len(queues["new"]) + Len(queues["retry"]) >= 2

\* the messages a cycle pulled from queue name, in the order of the pulls
Pulled(L, name) ==
    LET hit == SelectSeq(L, LAMBDA e : e.name = name)
    IN  [i \in 1..Len(hit) |-> hit[i].msg]

\* the messages a cycle filed in queue name, in the order of the filings
Refiled(L, name) ==
    LET hit == SelectSeq(L, LAMBDA e : e.filed /\ e.status = name)
    IN  [i \in 1..Len(hit) |-> hit[i].msg]

\* C15: within one cycle the messages are pulled from each queue oldest
\* first (what was pulled, followed by what is left, is what the queue held
\* at the start followed by what the cycle filed in it, in that order), no
\* pull from 'new' follows a pull from 'retry', and every message that was in
\* 'new' at the start has been dispatched before the first message of 'retry'.
C15_FifoNewBeforeRetry ==
    \A p \in Procs :
        InCycle(p) =>
            LET L == log[p]
            IN  /\ \A name \in {"new", "retry"} :
                      Pulled(L, name) \o queues[name]
                          = start[p].queues[name] \o Refiled(L, name)
                /\ \A i, j \in 1..Len(L) :
                      (L[i].name = "retry" /\ L[j].name = "new") => j < i
                /\ \A i \in 1..Len(L) :
                      L[i].name = "retry" =>
                          \A m \in Range(start[p].queues["new"]) :
                              \E j \in 1..(i - 1) :
                                  L[j].msg = m /\ L[j].name = "new"

\* C15 witness: from 'new' = [1, 3] and 'retry' = [2] the cycle has
\* dispatched 1, 3, 2.
C15_Witness ==
    \E p \in Procs :
        /\ pc[p] = "finally"
        /\ pending[p].kind = "return"
        /\ start[p].queues["new"] = <<1, 3>>
        /\ start[p].queues["retry"] = <<2>>
        /\ [i \in 1..Len(log[p]) |-> log[p][i].msg] = <<1, 3, 2>>

\* C16: when the listener files a message in the course of an assignment,
\* the status and the status_changed it can read are those of that
\* assignment: once the assignment has returned, what the listener saw is
\* what the message holds.
C16_ListenerSeesMutation ==
    \A m \in Msgs :
        status[m] # None =>
            /\ seen[m].status = status[m]
            /\ seen[m].status_changed = status_changed[m]

\* C17: when a cycle that took the lock returns normally, the 'new' and the
\* 'retry' queue are both empty, whatever statuses of the enumeration the
\* dispatchers returned.
C17_DispatchQueuesEmpty ==
    \A p \in Procs :
        (pc[p] \in {"finally", "returning"} /\ pending[p].kind = "return"
            /\ start[p] # NoStart) =>
                queues["new"] = <<>> /\ queues["retry"] = <<>>

\* the queues, statuses, counter and result of one cycle without conflict
\* from snapshot S, when the dispatcher of message m returns status D[m]
SingleCycle(S, D) ==
    LET todo == S.queues["new"] \o S.queues["retry"]
        to(st) == SelectSeq(todo, LAMBDA m : D[m] = st)
    IN  [queues |-> [s \in MESSAGE_STATES |->
                        IF s \in {"new", "retry"} THEN <<>> ELSE S.queues[s] \o to(s)],
         status |-> [m \in Msgs |-> IF m \in Range(todo) THEN D[m] ELSE S.status[m]],
         messages_sent |-> S.messages_sent + Len(to("sent")),
         result |-> Returned(Len(to("sent")), Len(to("error")))]

\* every dispatcher the cycle called returned 'sent' or 'error'
Succeeds(L) ==
    \A i \in 1..Len(L) :
        L[i].o.kind = "return" /\ L[i].o.status \in {"sent", "error"}

\* C18: when a cycle aborted by a store conflict has been rolled back and
\* dispatch() has run again with dispatchers that succeed, every message
\* that was in 'new' or 'retry' has been dispatched, and the queues, the
\* statuses, messages_sent and the returned counts are those of one cycle
\* from the state before the aborted one with the same dispatchers.
C18_RestartIdempotent ==
    \A p \in Procs :
        (pc[p] = "finally" /\ pending[p].kind = "return"
            /\ start[p].attempt >= 2 /\ Succeeds(log[p])) =>
            LET L == log[p]
                S == start[p]
                at(m) == CHOOSE i \in 1..Len(L) : L[i].msg = m
            IN  /\ \A m \in Range(S.queues["new"]) \cup Range(S.queues["retry"]) :
                      \E i \in 1..Len(L) : L[i].msg = m
                /\ LET D == [m \in Msgs |->
                                IF \E i \in 1..Len(L) : L[i].msg = m
                                THEN L[at(m)].status ELSE None]
                       one == SingleCycle(S, D)
                   IN  /\ queues = one.queues
                       /\ status = one.status
                       /\ messages_sent = one.messages_sent
                       /\ pending[p] = one.result

\* C18 witness: the first attempt had dispatched a message as 'sent' when
\* the conflict came; the second attempt has dispatched two messages, one
\* of them as 'sent', and returns.
C18_Witness ==
    \E p \in Procs :
        /\ pc[p] = "finally"
        /\ pending[p].kind = "return"
        /\ start[p].attempt = 2
        /\ Len(start[p].aborted) = 2
        /\ start[p].aborted[1].status = "sent"
        /\ start[p].aborted[2].o = RaisesConflict
        /\ Len(log[p]) = 2
        /\ Succeeds(log[p])
        /\ pending[p].sent >= 1

\* C19: when dispatch() has ended, with a return or with an exception (and
\* nothing has been rolled back), every message that was in a queue when it
\* was called is in a queue.
C19_NoMessageLost ==
    \A p \in Procs :
        pc[p] = "returning" =>
            \A m \in Msgs :
                (\E s \in MESSAGE_STATES : m \in Range(start[p].queues[s])) => Filed(m)
=============================================================================
